---- MODULE Spec2Model ----
(***************************************************************************)
(* Camera rig of src/components/scene.jsx (CameraRig inside Scene).        *)
(*                                                                         *)
(* The state is the part of the page the rig reads and writes: the camera  *)
(* transform, the rig's refs (initialRotation, targetCameraPos), its React *)
(* state (mouse), the size it closed over, and the listeners on window.    *)
(* One action per handler or lifecycle step.                               *)
(*                                                                         *)
(* Numbers are exact rationals [n, d] in lowest terms: 0.1 is 1/10, 0.02   *)
(* is 1/50.  The rounding of IEEE-754 doubles is not modelled.             *)
(***************************************************************************)
EXTENDS Integers, FiniteSets, Sequences, TLC

VARIABLES
    modelLoaded,      \* useGLTF('/homescreen-base-scene.glb') has resolved
    rig,              \* CameraRig: "suspended", "mounted" or "unmounted"
    storeSize,        \* the size the host holds (useThree's store)
    size,             \* the size the rendered closures of CameraRig hold
    mouseState,       \* the value last given to setMouse (React's state queue)
    mouse,            \* the mouse value the rendered closures hold
    needsRender,      \* a re-render of CameraRig is scheduled
    pointerListeners, \* window's 'pointermove' listeners: each the size its closure holds
    wheelListeners,   \* window's 'wheel' listeners
    initialRotation,  \* useRef(camera.rotation.clone())
    targetCameraPos,  \* useRef(camera.position.clone())
    cameraPosition,   \* camera.position
    cameraRotation,   \* camera.rotation
    last,             \* history: the last operation and its inputs
    nEvents,          \* history: events dispatched (pointer-move, wheel, resize)
    nFrames,          \* history: frames run
    streak,           \* history: frames run in a row since the last other operation
    effectRuns,       \* history: times the attach-listeners effect has run
    downs             \* history: downward scrolls handled since targetCameraPos was last reset

vars == <<modelLoaded, rig, storeSize, size, mouseState, mouse, needsRender,
          pointerListeners, wheelListeners, initialRotation, targetCameraPos,
          cameraPosition, cameraRotation, last, nEvents, nFrames,
          streak, effectRuns, downs>>

(***************************************************************************)
(* Bounds of the model.                                                    *)
(***************************************************************************)
MaxEvents == 3
MaxFrames == 3

(***************************************************************************)
(* Numbers.                                                                *)
(***************************************************************************)
Abs(i) == IF i < 0 THEN -i ELSE i

RECURSIVE GCD(_, _)
GCD(a, b) == IF b = 0 THEN a ELSE GCD(b, a % b)

LCM(a, b) == (a \div GCD(a, b)) * b

\* The number n/d (d # 0), in lowest terms with a positive denominator.
Rat(n, d) ==
    LET g == GCD(Abs(n), Abs(d))
        s == IF d < 0 THEN -1 ELSE 1
    IN  [n |-> (s * n) \div g, d |-> (s * d) \div g]

RAdd(a, b) ==
    LET l == LCM(a.d, b.d)
    IN  Rat(a.n * (l \div a.d) + b.n * (l \div b.d), l)

RSub(a, b) ==
    LET l == LCM(a.d, b.d)
    IN  Rat(a.n * (l \div a.d) - b.n * (l \div b.d), l)

RMul(a, b) ==
    LET g1 == GCD(Abs(a.n), b.d)
        g2 == GCD(Abs(b.n), a.d)
    IN  Rat((a.n \div g1) * (b.n \div g2), (a.d \div g2) * (b.d \div g1))

\* a / b for b # 0
RDiv(a, b) == RMul(a, Rat(b.d, b.n))

\* Comparisons of numbers, for the properties below.
RLt(a, b) ==
    LET l == LCM(a.d, b.d)
    IN  a.n * (l \div a.d) < b.n * (l \div b.d)

RLe(a, b) == a = b \/ RLt(a, b)

RAbs(a) == [n |-> Abs(a.n), d |-> a.d]

Vector3(x, y, z) == [x |-> x, y |-> y, z |-> z]

\* A ref or a closure variable of a component that has not rendered yet.
Unset == [unset |-> TRUE]

(***************************************************************************)
(* The program's constants.                                                *)
(***************************************************************************)
\* <Canvas camera={{ position: [7, 0.75, 1], fov: 50 }}>
CanvasCameraPosition == Vector3(Rat(7, 1), Rat(3, 4), Rat(1, 1))

\* useRef(new THREE.Vector3(7, 0.75, 1))
originalPosition == Vector3(Rat(7, 1), Rat(3, 4), Rat(1, 1))

\* targetCameraPos.current.y += 0.1
ScrollStep == Rat(1, 10)

\* Mutant of LerpAlpha: the camera jumps to the target.
LerpAlphaOne == Rat(1, 1)

\* camera.position.lerp(targetCameraPos.current, 0.02)
LerpAlpha == Rat(1, 50)

\* mouse.x * 0.035, mouse.y * 0.025
YawScale == Rat(35, 1000)
PitchScale == Rat(25, 1000)

\* useState({ x: 0, y: 0 })
InitialMouse == [x |-> Rat(0, 1), y |-> Rat(0, 1)]

(***************************************************************************)
(* The inputs of the model.                                                *)
(***************************************************************************)
\* Viewport sizes the host reports, and the one it reports first.
InitialSize == [width |-> 800, height |-> 600]

Sizes == {[width |-> 800, height |-> 600], [width |-> 400, height |-> 300]}

\* Pointer positions (clientX, clientY) of the pointer-move events.
Pointers == {<<0, 0>>, <<200, 150>>, <<400, 300>>, <<800, 600>>}

\* deltaY of the wheel events.
DeltaYs == {-1, 0, 1, 2}

\* The rotation the camera has when the rig first renders (set by the host).
CameraRotations ==
    {[x |-> Rat(0, 1), y |-> Rat(0, 1), z |-> Rat(0, 1)],
     [x |-> Rat(-1, 10), y |-> Rat(7, 5), z |-> Rat(1, 20)]}

\* The history record of an operation that takes no input.
Op(name) == [op |-> name, clientX |-> 0, clientY |-> 0, deltaY |-> 0]

(***************************************************************************)
(* The handlers, as functions of what they read.                           *)
(***************************************************************************)
\* Mutant of handlePointerMove: clientY is divided by the width.
handlePointerMoveWidthOnly(sz, clientX, clientY) ==
    [x |-> RSub(RMul(RDiv(Rat(clientX, 1), Rat(sz.width, 1)), Rat(2, 1)), Rat(1, 1)),
     y |-> RSub(RMul(RDiv(Rat(clientY, 1), Rat(sz.width, 1)), Rat(2, 1)), Rat(1, 1))]

\* handlePointerMove: the value given to setMouse.  sz is the size the
\* closure holds (useCallback's dependency).
handlePointerMove(sz, clientX, clientY) ==
    [x |-> RSub(RMul(RDiv(Rat(clientX, 1), Rat(sz.width, 1)), Rat(2, 1)), Rat(1, 1)),
     y |-> RSub(RMul(RDiv(Rat(clientY, 1), Rat(sz.height, 1)), Rat(2, 1)), Rat(1, 1))]

\* Mutant of handleWheel: the upward drift is clamped at y = 1.
handleWheelClamped(target, deltaY) ==
    IF deltaY > 0
    THEN [target EXCEPT !.y = IF RLt(RAdd(target.y, ScrollStep), Rat(1, 1))
                              THEN RAdd(target.y, ScrollStep)
                              ELSE Rat(1, 1)]
    ELSE IF deltaY < 0
         THEN originalPosition
         ELSE target

\* Mutant of handleWheel: an upward scroll steps back down instead of
\* returning to the original position.
handleWheelStepBack(target, deltaY) ==
    IF deltaY > 0
    THEN [target EXCEPT !.y = RAdd(target.y, ScrollStep)]
    ELSE IF deltaY < 0
         THEN [target EXCEPT !.y = RSub(target.y, ScrollStep)]
         ELSE target

\* handleWheel: the new value of targetCameraPos.current.
handleWheel(target, deltaY) ==
    IF deltaY > 0
    THEN [target EXCEPT !.y = RAdd(target.y, ScrollStep)]
    ELSE IF deltaY < 0
         THEN originalPosition
         ELSE target

\* window.addEventListener / window.removeEventListener on one event type.
addEventListener(listeners, handler) == listeners \cup {handler}

removeEventListener(listeners, handler) == listeners \ {handler}

\* The effect that attaches the listeners, with the handlers its closure holds.
EffectAttach(pl, wl, sz) ==
    [pointermove |-> addEventListener(pl, sz),
     wheel |-> addEventListener(wl, "handleWheel")]

\* Mutant of EffectCleanup: the 'wheel' listener is not removed.
EffectCleanupPointerOnly(pl, wl, sz) ==
    [pointermove |-> removeEventListener(pl, sz),
     wheel |-> wl]

\* The cleanup the effect returns: it removes the handlers it attached.
EffectCleanup(pl, wl, sz) ==
    [pointermove |-> removeEventListener(pl, sz),
     wheel |-> removeEventListener(wl, "handleWheel")]

\* Mutant of Lerp: the step is subtracted.
LerpAway(a, b, alpha) == RSub(a, RMul(RSub(b, a), alpha))

\* Vector3.lerp: this += (v - this) * alpha, on each coordinate.
Lerp(a, b, alpha) == RAdd(a, RMul(RSub(b, a), alpha))

\* Mutant of FrameRotation: the offset is taken from the current rotation.
FrameRotationAccumulates(rotation, baseline, m) ==
    [rotation EXCEPT !.y = RSub(rotation.y, RMul(m.x, YawScale)),
                     !.x = RSub(rotation.x, RMul(m.y, PitchScale))]

\* useFrame, step 1: the camera's rotation after the frame.
FrameRotation(rotation, baseline, m) ==
    [rotation EXCEPT !.y = RSub(baseline.y, RMul(m.x, YawScale)),
                     !.x = RSub(baseline.x, RMul(m.y, PitchScale))]

\* useFrame, step 2: the camera's position after the frame.
FramePosition(position, target) ==
    [x |-> Lerp(position.x, target.x, LerpAlpha),
     y |-> Lerp(position.y, target.y, LerpAlpha),
     z |-> Lerp(position.z, target.z, LerpAlpha)]

\* Mutant of SuspenseShowsChildren: CameraRig is outside the boundary.
SuspenseAlwaysShowsChildren(loaded) == TRUE

\* <Suspense fallback={null}>: its children (CameraRig among them) are
\* committed only once nothing inside it is suspended.
SuspenseShowsChildren(loaded) == loaded

(***************************************************************************)
(* The state machine.                                                      *)
(***************************************************************************)
Init ==
    /\ modelLoaded = FALSE
    /\ rig = "suspended"
    /\ storeSize = InitialSize
    /\ size = Unset
    /\ mouseState = Unset
    /\ mouse = Unset
    /\ needsRender = FALSE
    /\ pointerListeners = {}
    /\ wheelListeners = {}
    /\ initialRotation = Unset
    /\ targetCameraPos = Unset
    /\ cameraPosition = CanvasCameraPosition
    /\ cameraRotation \in CameraRotations
    /\ last = Op("init")
    /\ nEvents = 0
    /\ nFrames = 0
    /\ streak = 0
    /\ effectRuns = 0
    /\ downs = 0

\* useGLTF's load resolves.
ModelLoad ==
    /\ ~modelLoaded
    /\ modelLoaded' = TRUE
    /\ last' = Op("load")
    /\ streak' = 0
    /\ UNCHANGED <<rig, storeSize, size, mouseState, mouse, needsRender,
                   pointerListeners, wheelListeners, initialRotation,
                   targetCameraPos, cameraPosition, cameraRotation, nFrames,
                   effectRuns, downs, nEvents>>

\* The Suspense boundary commits its children: CameraRig renders for the
\* first time (its state and refs are created) and its effect attaches the
\* listeners.
MountCameraRig ==
    /\ rig = "suspended"
    /\ SuspenseShowsChildren(modelLoaded)
    /\ rig' = "mounted"
    /\ size' = storeSize
    /\ mouseState' = InitialMouse
    /\ mouse' = InitialMouse
    /\ needsRender' = FALSE
    /\ initialRotation' = cameraRotation
    /\ targetCameraPos' = cameraPosition
    /\ pointerListeners' = EffectAttach(pointerListeners, wheelListeners, storeSize).pointermove
    /\ wheelListeners' = EffectAttach(pointerListeners, wheelListeners, storeSize).wheel
    /\ effectRuns' = effectRuns + 1
    /\ last' = Op("mount")
    /\ streak' = 0
    /\ UNCHANGED <<modelLoaded, storeSize, cameraPosition, cameraRotation,
                   nFrames, downs, nEvents>>

\* A 'pointermove' event on window: every registered handler runs.  setMouse
\* queues the new state and schedules a re-render; it does nothing once the
\* component is unmounted.
PointerMoveEvent ==
    /\ nEvents < MaxEvents
    /\ \E p \in Pointers :
          /\ IF pointerListeners # {} /\ rig = "mounted"
             THEN /\ \E sz \in pointerListeners :
                        mouseState' = handlePointerMove(sz, p[1], p[2])
                  /\ needsRender' = TRUE
             ELSE UNCHANGED <<mouseState, needsRender>>
          /\ last' = [op |-> "pointermove", clientX |-> p[1], clientY |-> p[2],
                      deltaY |-> 0]
    /\ nEvents' = nEvents + 1
    /\ streak' = 0
    /\ UNCHANGED <<modelLoaded, rig, storeSize, size, mouse,
                   pointerListeners, wheelListeners, initialRotation,
                   targetCameraPos, cameraPosition, cameraRotation, nFrames,
                   effectRuns, downs>>

\* Mutant of WheelEvent: an upward scroll also snaps the camera itself.
WheelEventSnapsCamera ==
    /\ nEvents < MaxEvents
    /\ \E dy \in DeltaYs :
          /\ IF wheelListeners # {}
             THEN /\ targetCameraPos' = handleWheel(targetCameraPos, dy)
                  /\ cameraPosition' = IF dy < 0 THEN originalPosition
                                       ELSE cameraPosition
                  /\ downs' = IF dy > 0 THEN downs + 1
                              ELSE IF dy < 0 THEN 0 ELSE downs
             ELSE UNCHANGED <<targetCameraPos, cameraPosition, downs>>
          /\ last' = [op |-> "wheel", clientX |-> 0, clientY |-> 0, deltaY |-> dy]
    /\ nEvents' = nEvents + 1
    /\ streak' = 0
    /\ UNCHANGED <<modelLoaded, rig, storeSize, size, mouseState, mouse,
                   needsRender, pointerListeners, wheelListeners,
                   initialRotation, cameraRotation, nFrames, effectRuns>>

\* A 'wheel' event on window: the registered handler runs.
WheelEvent ==
    /\ nEvents < MaxEvents
    /\ \E dy \in DeltaYs :
          /\ IF wheelListeners # {}
             THEN /\ targetCameraPos' = handleWheel(targetCameraPos, dy)
                  /\ downs' = IF dy > 0 THEN downs + 1
                              ELSE IF dy < 0 THEN 0 ELSE downs
             ELSE UNCHANGED <<targetCameraPos, downs>>
          /\ last' = [op |-> "wheel", clientX |-> 0, clientY |-> 0, deltaY |-> dy]
    /\ nEvents' = nEvents + 1
    /\ streak' = 0
    /\ UNCHANGED <<modelLoaded, rig, storeSize, size, mouseState, mouse,
                   needsRender, pointerListeners, wheelListeners,
                   initialRotation, cameraPosition, cameraRotation, nFrames,
                   effectRuns>>

\* The useFrame callback of the last committed render.
Frame ==
    /\ rig = "mounted"
    /\ nFrames < MaxFrames
    /\ cameraRotation' = FrameRotation(cameraRotation, initialRotation, mouse)
    /\ cameraPosition' = FramePosition(cameraPosition, targetCameraPos)
    /\ nFrames' = nFrames + 1
    /\ streak' = streak + 1
    /\ last' = Op("frame")
    /\ UNCHANGED <<modelLoaded, rig, storeSize, size, mouseState, mouse,
                   needsRender, pointerListeners, wheelListeners,
                   initialRotation, targetCameraPos, effectRuns, downs,
                   nEvents>>

\* The host reports a new viewport size; useThree schedules a re-render.
Resize ==
    /\ nEvents < MaxEvents
    /\ \E s \in Sizes \ {storeSize} : storeSize' = s
    /\ needsRender' = IF rig = "mounted" THEN TRUE ELSE needsRender
    /\ nEvents' = nEvents + 1
    /\ last' = Op("resize")
    /\ streak' = 0
    /\ UNCHANGED <<modelLoaded, rig, size, mouseState, mouse,
                   pointerListeners, wheelListeners, initialRotation,
                   targetCameraPos, cameraPosition, cameraRotation, nFrames,
                   effectRuns, downs>>

\* React re-renders CameraRig and commits: the closures now hold the latest
\* mouse and size; when size changed, handlePointerMove is a new function,
\* so the effect's cleanup runs and the effect runs again.
Render ==
    /\ rig = "mounted"
    /\ needsRender
    /\ needsRender' = FALSE
    /\ mouse' = mouseState
    /\ size' = storeSize
    /\ IF storeSize # size
       THEN LET cleaned == EffectCleanup(pointerListeners, wheelListeners, size)
                attached == EffectAttach(cleaned.pointermove, cleaned.wheel, storeSize)
            IN  /\ pointerListeners' = attached.pointermove
                /\ wheelListeners' = attached.wheel
                /\ effectRuns' = effectRuns + 1
       ELSE UNCHANGED <<pointerListeners, wheelListeners, effectRuns>>
    /\ last' = Op("render")
    /\ streak' = 0
    /\ UNCHANGED <<modelLoaded, rig, storeSize, mouseState, initialRotation,
                   targetCameraPos, cameraPosition, cameraRotation, nFrames,
                   downs, nEvents>>

\* The scene is unmounted: the effect's cleanup runs, the frame callback is
\* unsubscribed and scheduled re-renders are dropped.
Unmount ==
    /\ rig # "unmounted"
    /\ rig' = "unmounted"
    /\ needsRender' = FALSE
    /\ IF rig = "mounted"
       THEN /\ pointerListeners' = EffectCleanup(pointerListeners, wheelListeners, size).pointermove
            /\ wheelListeners' = EffectCleanup(pointerListeners, wheelListeners, size).wheel
       ELSE UNCHANGED <<pointerListeners, wheelListeners>>
    /\ last' = Op("unmount")
    /\ streak' = 0
    /\ UNCHANGED <<modelLoaded, storeSize, size, mouseState, mouse,
                   initialRotation, targetCameraPos, cameraPosition,
                   cameraRotation, nFrames, effectRuns, downs, nEvents>>

Next ==
    \/ ModelLoad
    \/ MountCameraRig
    \/ PointerMoveEvent
    \/ WheelEvent
    \/ Frame
    \/ Resize
    \/ Render
    \/ Unmount

Spec == Init /\ [][Next]_vars

(***************************************************************************)
(* Steps, as the history variables show them.                              *)
(***************************************************************************)
PointerStep == nEvents' = nEvents + 1 /\ last'.op = "pointermove"

WheelStep == nEvents' = nEvents + 1 /\ last'.op = "wheel"

FrameStep == nFrames' = nFrames + 1

\* c2 lies between c1 and t (ends included).
Between(c1, c2, t) == (RLe(c1, c2) /\ RLe(c2, t)) \/ (RLe(t, c2) /\ RLe(c2, c1))

\* c2 is strictly nearer to t than c1 is.
Nearer(c1, c2, t) == RLt(RAbs(RSub(t, c2)), RAbs(RSub(t, c1)))

(***************************************************************************)
(* C1.  While the rig is mounted, a wheel event with deltaY > 0 adds       *)
(* exactly 0.1 to targetPos.y and leaves x and z alone; N downward scrolls *)
(* since the target was last at the origin put it at (7, 0.75 + 0.1 N, 1), *)
(* with no clamp.                                                          *)
(***************************************************************************)
C1_TargetIsOriginPlusSteps ==
    rig = "mounted" =>
        targetCameraPos = Vector3(Rat(7, 1), RAdd(Rat(3, 4), Rat(downs, 10)), Rat(1, 1))

C1_DownStep ==
    (rig = "mounted" /\ WheelStep /\ last'.deltaY > 0) =>
        /\ RSub(targetCameraPos'.y, targetCameraPos.y) = Rat(1, 10)
        /\ targetCameraPos'.x = targetCameraPos.x
        /\ targetCameraPos'.z = targetCameraPos.z
        /\ downs' = downs + 1

C1_ScrollDownAddsStep == []C1_TargetIsOriginPlusSteps /\ [][C1_DownStep]_vars

C1_Witness ==
    /\ rig = "mounted"
    /\ last.op = "wheel" /\ last.deltaY > 0
    /\ downs = 3
    /\ targetCameraPos = Vector3(Rat(7, 1), Rat(105, 100), Rat(1, 1))

(***************************************************************************)
(* C2.  While the rig is mounted, a wheel event with deltaY < 0 makes      *)
(* targetPos exactly (7, 0.75, 1), whatever it was before.                 *)
(***************************************************************************)
C2_ScrollUpResets ==
    [][(rig = "mounted" /\ WheelStep /\ last'.deltaY < 0) =>
          targetCameraPos' = Vector3(Rat(7, 1), Rat(3, 4), Rat(1, 1))]_vars

C2_Witness ==
    /\ rig = "mounted"
    /\ last.op = "wheel" /\ last.deltaY < 0
    /\ nFrames > 0
    /\ RLt(Rat(3, 4), cameraPosition.y)
    /\ targetCameraPos.y = Rat(3, 4)

(***************************************************************************)
(* C3.  Once the rig is unmounted no listener of it is left on window, and *)
(* no step (a pointer-move or wheel event among them) changes pointerNorm, *)
(* targetPos, the camera position or the camera rotation; also when the    *)
(* listeners had been re-registered after a change of size.                *)
(***************************************************************************)
C3_UnmountDetaches ==
    /\ [](rig = "unmounted" => pointerListeners = {} /\ wheelListeners = {})
    /\ [][rig = "unmounted" =>
            UNCHANGED <<mouseState, mouse, targetCameraPos, cameraPosition,
                        cameraRotation>>]_vars

C3_Witness ==
    /\ rig = "unmounted"
    /\ effectRuns >= 2
    /\ last.op = "wheel" /\ last.deltaY # 0

(***************************************************************************)
(* C4.  The camera's position and rotation change only in a frame: every   *)
(* event leaves them alone; a pointer-move changes no targetPos and a      *)
(* wheel event changes no pointerNorm.                                     *)
(***************************************************************************)
C4_OnlyFramesMoveCamera ==
    [][/\ (nEvents' = nEvents + 1) =>
             (cameraPosition' = cameraPosition /\ cameraRotation' = cameraRotation)
       /\ (cameraPosition' # cameraPosition \/ cameraRotation' # cameraRotation) =>
             FrameStep
       /\ PointerStep => targetCameraPos' = targetCameraPos
       /\ WheelStep => (mouseState' = mouseState /\ mouse' = mouse)]_vars

C4_Witness ==
    /\ rig = "mounted"
    /\ last.op = "wheel" /\ last.deltaY < 0
    /\ targetCameraPos = originalPosition
    /\ cameraPosition # targetCameraPos

(***************************************************************************)
(* C5 as claimed.  While the model load is pending and the scene is        *)
(* mounted, a pointer-move event sets pointerNorm and an upward scroll     *)
(* sets targetPos.                                                         *)
(***************************************************************************)
C5_HandledWhilePending ==
    [][(~modelLoaded /\ rig # "unmounted") =>
          /\ PointerStep =>
                mouseState' = handlePointerMove(storeSize, last'.clientX, last'.clientY)
          /\ (WheelStep /\ last'.deltaY < 0) =>
                targetCameraPos' = originalPosition]_vars

(***************************************************************************)
(* C5 as amended.  The rig is inside the boundary the load suspends: while *)
(* the load is pending the rig is not mounted, window holds no listener of *)
(* it, and events change neither pointerNorm nor targetPos.                *)
(***************************************************************************)
C5_SuspendedWhilePending ==
    /\ [](~modelLoaded =>
            (rig # "mounted" /\ pointerListeners = {} /\ wheelListeners = {}))
    /\ [][(~modelLoaded /\ nEvents' = nEvents + 1) =>
            UNCHANGED <<mouseState, mouse, targetCameraPos>>]_vars

C5_Witness ==
    /\ ~modelLoaded
    /\ rig = "suspended"
    /\ last.op = "wheel" /\ last.deltaY > 0
    /\ targetCameraPos = Unset

(***************************************************************************)
(* C6.  Every frame uses the pointer value and the targetPos set by the    *)
(* most recent event handled before it.                                    *)
(***************************************************************************)
C6_FrameUsesLatest ==
    [][FrameStep =>
          /\ cameraRotation' = FrameRotation(cameraRotation, initialRotation, mouseState)
          /\ cameraPosition' = FramePosition(cameraPosition, targetCameraPos)]_vars

(***************************************************************************)
(* C7.  In a frame with the camera away from targetPos, every coordinate   *)
(* that differs from the target's gets strictly nearer to it and stays     *)
(* between its previous value and the target's, and a coordinate already   *)
(* on the target stays: the distance strictly shrinks, with no overshoot.  *)
(***************************************************************************)
C7_CoordConverges(c1, c2, t) ==
    IF c1 = t THEN c2 = t ELSE Nearer(c1, c2, t) /\ Between(c1, c2, t)

C8_RotationFromBaseline ==
    [][/\ rig # "suspended" => initialRotation' = initialRotation
       /\ FrameStep =>
             /\ cameraRotation'.y = RSub(initialRotation.y, RMul(mouse.x, Rat(35, 1000)))
             /\ cameraRotation'.x = RSub(initialRotation.x, RMul(mouse.y, Rat(25, 1000)))
             /\ cameraRotation'.z = cameraRotation.z
       /\ (FrameStep /\ streak >= 1) => cameraRotation' = cameraRotation]_vars

C8_Witness ==
    /\ last.op = "frame"
    /\ streak >= 2
    /\ mouse.x # Rat(0, 1) /\ mouse.y # Rat(0, 1)
    /\ cameraRotation # initialRotation

(***************************************************************************)
(* C9.  A pointer-move event with clientX in [0, width] and clientY in     *)
(* [0, height], width and height being those the handler holds, makes      *)
(* pointerNorm ((2 clientX - width) / width, (2 clientY - height) /        *)
(* height), whatever it was: each axis in [-1, 1], -1 at 0, 1 at the far   *)
(* edge and 0 at the centre.                                               *)
(***************************************************************************)
C9_AxisInRange(v, client, extent) ==
    /\ v = Rat(2 * client - extent, extent)
    /\ RLe(Rat(-1, 1), v) /\ RLe(v, Rat(1, 1))
    /\ client = 0 => v = Rat(-1, 1)
    /\ client = extent => v = Rat(1, 1)
    /\ 2 * client = extent => v = Rat(0, 1)

C9_PointerNormInRange ==
    [][(rig = "mounted" /\ PointerStep) =>
          \A sz \in pointerListeners :
              (/\ 0 <= last'.clientX /\ last'.clientX <= sz.width
               /\ 0 <= last'.clientY /\ last'.clientY <= sz.height) =>
                  /\ C9_AxisInRange(mouseState'.x, last'.clientX, sz.width)
                  /\ C9_AxisInRange(mouseState'.y, last'.clientY, sz.height)]_vars

C9_Witness ==
    /\ rig = "mounted"
    /\ last.op = "pointermove"
    /\ last.clientX = size.width /\ last.clientY = size.height
    /\ pointerListeners = {size}
    /\ mouseState = [x |-> Rat(1, 1), y |-> Rat(1, 1)]
    /\ mouse # mouseState

(***************************************************************************)
(* C10 as claimed.  The camera position changes only by the fractional     *)
(* step of a frame and never equals targetPos.                             *)
(***************************************************************************)
C10_StepOnly ==
    /\ cameraPosition' # cameraPosition => FrameStep
    /\ FrameStep =>
          \A k \in {"x", "y", "z"} :
              RMul(Rat(50, 1), RSub(cameraPosition'[k], cameraPosition[k]))
                  = RSub(targetCameraPos[k], cameraPosition[k])

C10_NeverAtTarget ==
    /\ [](rig = "mounted" => cameraPosition # targetCameraPos)
    /\ [][C10_StepOnly]_vars

(***************************************************************************)
(* C10 as amended.  The camera position changes only by the fractional     *)
(* step of a frame, and a frame never puts a camera that is away from      *)
(* targetPos on it.  (It is on targetPos when the rig mounts, and again    *)
(* whenever the target is reset to where the camera is.)                   *)
(***************************************************************************)
C10_NeverReachesTarget ==
    [][/\ C10_StepOnly
       /\ (FrameStep /\ cameraPosition # targetCameraPos) =>
             cameraPosition' # targetCameraPos']_vars

C10_Witness ==
    /\ last.op = "frame"
    /\ nFrames >= 3
    /\ downs >= 1
    /\ cameraPosition # targetCameraPos

====
